---- MODULE Spec2Model ----
(***************************************************************************)
(* Room state machine, status history, room blockings and availability of  *)
(* modulio_hotelcore (models/hotel_room.py, hotel_room_blocking.py,        *)
(* hotel_room_status_history.py).                                          *)
(*                                                                         *)
(* Persistence: every ORM call of a handler (write, create) takes effect   *)
(* when it is executed.  A handler that raises after an earlier write ends *)
(* there; whether the earlier write survives depends on the caller (the    *)
(* RPC layer rolls the transaction back, a Python caller that handles the  *)
(* error keeps it), so both outcomes are modelled (TxOutcomes).            *)
(***************************************************************************)
EXTENDS Integers, Sequences, FiniteSets, TLC

VARIABLES room, blockings, history, now, config, last, accepted, proc, requests

vars == <<room, blockings, history, now, config, last, accepted, proc, requests>>

(* ---------------------------- bounds ---------------------------------- *)
MaxTime == 1
MaxHistory == 2
MaxDate == 2
MaxBlockings == 2

MaxRequests == 2

Rooms == {1, 2}
OneRoom == {1}
NoRoom == 0
Dates == 1..MaxDate
Times == 0..MaxTime

(* ------------------------- enumerations ------------------------------- *)
\* hotel.room state selection
RoomStates ==
  {"clean", "check_in", "check_out", "dirty", "make_up_room", "inspected",
   "out_of_service", "out_of_order", "house_use"}

\* hotel.room.status.history old_state / new_state selection
HistoryStates ==
  {"clean", "dirty", "make_up_room", "inspected", "out_of_service",
   "out_of_order", "house_use"}

\* hotel.room.status.history change_type selection
ChangeTypes == {"fo", "hk", "mt", "blocking", "system", "other"}

\* hotel.room.blocking blocking_type selection
BlockingTypes == {"maintenance", "event", "out_of_order", "renovation", "other"}

\* hotel.room.blocking status selection
BlockingStatuses == {"planned", "active", "completed", "cancelled"}

\* what becomes of the writes a handler made before it raised
TxOutcomes == {"rollback", "partial"}

\* stored values of an ir.config_parameter key ("NONE": the key is absent)
ParamValues == {"True", "NONE"}

(* --------------------------- settings --------------------------------- *)
get_param(key, default) ==
  IF config[key] = "NONE" THEN default ELSE config[key]

require_inspected_to_sell == get_param("require_inspected_to_sell", "False") = "True"

_event_closes_inventory == get_param("event_closes_inventory", "False") = "True"

(* ------------------------ status history ------------------------------ *)
\* _has_actual_changes answering True for every record
_has_actual_changes_any(vals) == TRUE

_has_actual_changes(vals) ==
  \/ vals.old_state # vals.new_state
  \/ vals.old_maintenance_required # vals.new_maintenance_required

\* Selection fields refuse a value outside their selection
history_selection_ok(vals) ==
  /\ vals.old_state \in HistoryStates
  /\ vals.new_state \in HistoryStates
  /\ vals.change_type \in ChangeTypes

\* the history table without its UNIQUE constraint
room_change_date_any(hist, vals) == TRUE

\* UNIQUE(room_id, change_date, change_type)
room_change_date_unique(hist, vals) ==
  \A i \in 1..Len(hist) :
    ~ /\ hist[i].room_id = vals.room_id
      /\ hist[i].change_date = vals.change_date
      /\ hist[i].change_type = vals.change_type

\* HotelRoomStatusHistory.create: the error it raises, or "none"
history_create_error(hist, vals) ==
  IF ~_has_actual_changes(vals) THEN "ValidationError"
  ELSE IF ~history_selection_ok(vals) THEN "ValueError"
  ELSE IF ~room_change_date_unique(hist, vals) THEN "IntegrityError"
  ELSE "none"

\* create_status_change with the refusal of the record swallowed
create_status_change_silent(hist, room_id, change_type, old_values, new_values, change_method) ==
  [error |-> "none", history |-> hist]

create_status_change(hist, room_id, change_type, old_values, new_values, change_method) ==
  LET history_vals ==
        [room_id |-> room_id,
         change_type |-> change_type,
         old_state |-> old_values.state,
         new_state |-> new_values.state,
         old_maintenance_required |-> old_values.maintenance_required,
         new_maintenance_required |-> new_values.maintenance_required,
         change_method |-> change_method,
         change_date |-> now]
      err == history_create_error(hist, history_vals)
  IN [error |-> err,
      history |-> IF err = "none" THEN Append(hist, history_vals) ELSE hist]

\* the results get_room_status_timeline's search may return: the ids of the
\* room's entries within the period that record a change, ordered by
\* change_date ascending and, among entries of one change_date, in whatever
\* order the database returns them
timeline_orders(hist, room_id, start_date, end_date) ==
  LET found == {i \in 1..Len(hist) :
                  /\ hist[i].room_id = room_id
                  /\ hist[i].change_date >= start_date
                  /\ hist[i].change_date <= end_date
                  /\ _has_actual_changes(hist[i])}
      n == Cardinality(found)
  IN {order \in [1..n -> found] :
        /\ \A i \in 1..n, j \in 1..n : i # j => order[i] # order[j]
        /\ \A i \in 1..n, j \in 1..n :
             i < j => hist[order[i]].change_date <= hist[order[j]].change_date}

(* ------------------------------ room ---------------------------------- *)
NewRoom ==
  [state |-> "clean",
   maintenance_required |-> FALSE,
   last_status_change |-> 0,
   status_change_reason |-> "NONE",
   blocking_type |-> "NONE",
   blocking_reason |-> "NONE"]

\* the fields hotel.room declares (those a handler here writes); the model
\* declares no housekeeping_state
RoomFields ==
  {"state", "maintenance_required", "last_status_change", "status_change_reason",
   "blocking_type", "blocking_reason"}

\* HotelRoom.write: a key that is no field of the model is refused with a
\* ValueError before anything is written; a 'state' key stamps
\* last_status_change
room_write(rec, vals) ==
  IF ~(DOMAIN vals \subseteq RoomFields) THEN [error |-> "ValueError", room |-> rec]
  ELSE [error |-> "none",
        room |-> [f \in DOMAIN rec |->
                    IF f \in DOMAIN vals THEN vals[f]
                    ELSE IF f = "last_status_change" /\ "state" \in DOMAIN vals THEN now
                    ELSE rec[f]]]

\* HotelRoom.write with a 'state' key: last_status_change is stamped
write_state(rec, new_state, maintenance_required, reason) ==
  [rec EXCEPT !.state = new_state,
              !.maintenance_required = maintenance_required,
              !.status_change_reason = reason,
              !.last_status_change = now]

\* the latest call: its name, the room and blocking id it was made on, its
\* other arguments, how it ended, and what became of its writes if it raised
OutcomeArg(op, r, id, arg, result, tx) ==
  [op |-> op, room |-> r, id |-> id, arg |-> arg, result |-> result, tx |-> tx]

Outcome(op, r, id, result, tx) == OutcomeArg(op, r, id, <<>>, result, tx)

NoOp == Outcome("init", NoRoom, 0, "ok", "none")

\* how a call ended: "ok", or the error it raised
Result(error) == IF error = "none" THEN "ok" ELSE error

\* a handler's state guard, with the guard left out
state_allowed_unguarded(rec, from) == TRUE

\* a handler's state guard: "if self.state not in [...]: raise ValidationError"
state_allowed(rec, from) == rec.state \in from

\* a handler that writes the room and logs the change without validating
\* either
transition_unchecked(rm, hist, r, h, has_group, tx) ==
  IF ~has_group THEN
    [result |-> "AccessDenied", tx |-> "none", room |-> rm, history |-> hist]
  ELSE
    [result |-> "ok", tx |-> "none",
     room |-> [rm EXCEPT ![r] = write_state(rm[r], h.to, rm[r].maintenance_required,
                                            h.reason)],
     history |-> Append(hist,
                   [room_id |-> r, change_type |-> h.change_type,
                    old_state |-> rm[r].state, new_state |-> h.to,
                    old_maintenance_required |-> rm[r].maintenance_required,
                    new_maintenance_required |-> rm[r].maintenance_required,
                    change_method |-> h.method, change_date |-> now])]

\* what a handler call does to the room and the history: access check, state
\* guard, room write, history record.  h describes the handler; tx is what
\* becomes of the room write if the history record is refused.
transition(rm, hist, r, h, has_group, tx) ==
  IF ~has_group THEN
    [result |-> "AccessDenied", tx |-> "none", room |-> rm, history |-> hist]
  ELSE IF ~state_allowed(rm[r], h.from) THEN
    [result |-> "InvalidTransition", tx |-> "none", room |-> rm, history |-> hist]
  ELSE
    LET old_values == [state |-> rm[r].state,
                       maintenance_required |-> rm[r].maintenance_required]
        new_maintenance == IF h.set_maintenance THEN h.maintenance
                           ELSE rm[r].maintenance_required
        written == write_state(rm[r], h.to, new_maintenance, h.reason)
        new_values == [state |-> h.to, maintenance_required |-> new_maintenance]
        created == create_status_change(hist, r, h.change_type,
                                        old_values, new_values, h.method)
    IN IF created.error = "none" THEN
         [result |-> "ok", tx |-> "none",
          room |-> [rm EXCEPT ![r] = written], history |-> created.history]
       ELSE
         [result |-> created.error, tx |-> tx,
          room |-> IF tx = "partial" THEN [rm EXCEPT ![r] = written] ELSE rm,
          history |-> hist]

\* a handler called on room r
Transition(r, h) ==
  /\ Len(history) < MaxHistory
  /\ \E has_group \in BOOLEAN, tx \in TxOutcomes :
       LET t == transition(room, history, r, h, has_group, tx)
       IN /\ room' = t.room
          /\ history' = t.history
          /\ accepted' = IF t.result = "ok" THEN [accepted EXCEPT ![r] = @ + 1]
                         ELSE accepted
          /\ last' = Outcome(h.method, r, 0, t.result, t.tx)
  /\ UNCHANGED <<blockings, now, config, proc, requests>>

Handler(method, from, to, change_type, reason, set_maintenance, maintenance) ==
  [method |-> method, from |-> from, to |-> to, change_type |-> change_type,
   reason |-> reason, set_maintenance |-> set_maintenance, maintenance |-> maintenance]

assign_house_use ==
  Handler("action_assign_house_use", {"clean", "inspected"}, "house_use",
          "fo", "House Use", FALSE, FALSE)

staff_checkout ==
  Handler("action_staff_checkout", {"house_use"}, "dirty",
          "fo", "Staff Check-out", FALSE, FALSE)

check_in ==
  Handler("action_check_in", {"clean", "inspected"}, "check_in",
          "fo", "Guest Check-in", FALSE, FALSE)

check_out ==
  Handler("action_check_out", {"check_in"}, "check_out",
          "fo", "Guest Check-out", FALSE, FALSE)

room_ready_for_cleaning ==
  Handler("action_room_ready_for_cleaning", {"check_out"}, "dirty",
          "fo", "Room ready for cleaning", FALSE, FALSE)

start_cleaning ==
  Handler("action_start_cleaning", {"dirty"}, "make_up_room",
          "hk", "Started cleaning", FALSE, FALSE)

finish_cleaning ==
  Handler("action_finish_cleaning", {"make_up_room"}, "inspected",
          "hk", "Finished cleaning", FALSE, FALSE)

final_inspection ==
  Handler("action_final_inspection", {"inspected"}, "clean",
          "hk", "Final inspection passed", FALSE, FALSE)

maintenance_light ==
  Handler("action_maintenance_light", {"clean"}, "out_of_service",
          "hk", "Light maintenance started", TRUE, TRUE)

maintenance_heavy ==
  Handler("action_maintenance_heavy", {"clean"}, "out_of_order",
          "hk", "Heavy maintenance started", TRUE, TRUE)

complete_maintenance ==
  Handler("action_complete_maintenance", {"out_of_service", "out_of_order"},
          "clean", "hk", "Maintenance completed", TRUE, FALSE)

\* the user groups the access helpers look up
Groups == {"front_office", "housekeeping", "maintenance"}

\* every handler asking for the front office group
access_group_front_office(h) == "front_office"

\* the group whose membership a handler requires in its second statement:
\* _check_front_office_access or _check_housekeeping_access
access_group(h) ==
  IF h.method \in {"action_assign_house_use", "action_staff_checkout", "action_check_in",
                   "action_check_out", "action_room_ready_for_cleaning"}
  THEN "front_office"
  ELSE "housekeeping"

\* a handler called on room r by a user who is in the given groups
call_as(r, h, groups) ==
  /\ Len(history) < MaxHistory
  /\ \E tx \in TxOutcomes :
       LET t == transition(room, history, r, h, access_group(h) \in groups, tx)
       IN /\ room' = t.room
          /\ history' = t.history
          /\ accepted' = IF t.result = "ok" THEN [accepted EXCEPT ![r] = @ + 1]
                         ELSE accepted
          /\ last' = OutcomeArg(h.method, r, 0, <<groups>>, t.result, t.tx)
  /\ UNCHANGED <<blockings, now, config, proc, requests>>

\* the eleven handlers
Handlers ==
  {assign_house_use, staff_checkout, check_in, check_out, room_ready_for_cleaning,
   start_cleaning, finish_cleaning, final_inspection, maintenance_light,
   maintenance_heavy, complete_maintenance}

action_assign_house_use(r) == Transition(r, assign_house_use)

action_staff_checkout(r) == Transition(r, staff_checkout)

action_check_in(r) == Transition(r, check_in)

action_check_out(r) == Transition(r, check_out)

action_room_ready_for_cleaning(r) == Transition(r, room_ready_for_cleaning)

action_start_cleaning(r) == Transition(r, start_cleaning)

action_finish_cleaning(r) == Transition(r, finish_cleaning)

action_final_inspection(r) == Transition(r, final_inspection)

action_maintenance_light(r) == Transition(r, maintenance_light)

action_maintenance_heavy(r) == Transition(r, maintenance_heavy)

action_complete_maintenance(r) == Transition(r, complete_maintenance)

\* set_state accepting any value a caller passes
SetStateAllowed_any ==
  {"clean", "check_in", "check_out", "dirty", "make_up_room", "inspected",
   "out_of_service", "out_of_order", "house_use", "reserved", "blocked"}

\* states set_state accepts
SetStateAllowed ==
  {"clean", "dirty", "make_up_room", "inspected", "out_of_service",
   "out_of_order", "house_use"}

\* HotelRoom.set_state as called under the name op
do_set_state(op, r, new_state) ==
  /\ IF new_state \notin SetStateAllowed THEN
       /\ last' = OutcomeArg(op, r, 0, <<new_state>>, "ValidationError", "none")
       /\ UNCHANGED room
     ELSE
       /\ room' = [room EXCEPT ![r].state = new_state,
                               ![r].last_status_change = now]
       /\ last' = OutcomeArg(op, r, 0, <<new_state>>, "ok", "none")
  /\ UNCHANGED <<blockings, history, now, config, accepted, proc, requests>>

set_state(r, new_state) == do_set_state("set_state", r, new_state)

mark_dirty(r) == do_set_state("mark_dirty", r, "dirty")

mark_clean(r) == do_set_state("mark_clean", r, "clean")

mark_inspected(r) == do_set_state("mark_inspected", r, "inspected")

mark_out_of_service(r) == do_set_state("mark_out_of_service", r, "out_of_service")

(* ---------------------------- blockings ------------------------------- *)
\* name of a blocking (required field; callers here all pass the same one)
BlockingName == "Blocking"

NonTerminal == {"planned", "active"}

\* _validate_dates returning for every pair of dates
_validate_dates_any(start_date, end_date) == TRUE

\* an interval's dates are compared as dates, both bounds inclusive
_validate_dates(start_date, end_date) == ~(start_date > end_date)

\* the search of _check_room_availability, an inclusive bound compared strictly
conflicting_blockings_strict(blks, room_id, start_date, end_date, exclude_id) ==
  {i \in 1..Len(blks) :
     /\ blks[i].room_id = room_id
     /\ blks[i].status \in NonTerminal
     /\ blks[i].start_date < end_date
     /\ blks[i].end_date >= start_date
     /\ i # exclude_id}

\* the search of _check_room_availability, the record written counted too
conflicting_blockings_self(blks, room_id, start_date, end_date, exclude_id) ==
  {i \in 1..Len(blks) :
     /\ blks[i].room_id = room_id
     /\ blks[i].status \in NonTerminal
     /\ blks[i].start_date <= end_date
     /\ blks[i].end_date >= start_date}

\* the search of _check_room_availability, blockings of every status counted
conflicting_blockings_any_status(blks, room_id, start_date, end_date, exclude_id) ==
  {i \in 1..Len(blks) :
     /\ blks[i].room_id = room_id
     /\ blks[i].start_date <= end_date
     /\ blks[i].end_date >= start_date
     /\ i # exclude_id}

\* the search of _check_room_availability, blockings of every room counted
conflicting_blockings_any_room(blks, room_id, start_date, end_date, exclude_id) ==
  {i \in 1..Len(blks) :
     /\ blks[i].status \in NonTerminal
     /\ blks[i].start_date <= end_date
     /\ blks[i].end_date >= start_date
     /\ i # exclude_id}

\* the search of _check_room_availability
conflicting_blockings(blks, room_id, start_date, end_date, exclude_id) ==
  {i \in 1..Len(blks) :
     /\ blks[i].room_id = room_id
     /\ blks[i].status \in NonTerminal
     /\ blks[i].start_date <= end_date
     /\ blks[i].end_date >= start_date
     /\ i # exclude_id}

\* TRUE when _check_room_availability returns, FALSE when it raises
_check_room_availability(blks, room_id, start_date, end_date, exclude_id) ==
  IF room_id = NoRoom THEN TRUE
  ELSE conflicting_blockings(blks, room_id, start_date, end_date, exclude_id) = {}

\* the room_vals of an activation holding the blocking type alone
impact_vals_type_only(new_type, reason) == [k \in {"blocking_type"} |-> new_type]

\* the room_vals of an activation with the event exemption left out
impact_vals_closing(new_type, reason) ==
  [k \in {"blocking_type", "blocking_reason", "housekeeping_state"} |->
     CASE k = "blocking_type" -> new_type
       [] k = "blocking_reason" -> (IF reason # "NONE" THEN reason ELSE BlockingName)
       [] OTHER -> "out_of_service"]

\* the room_vals of an activation: blocking fields always, housekeeping_state
\* unless an event that does not close inventory
impact_vals(new_type, reason) ==
  [k \in {"blocking_type", "blocking_reason"}
         \cup (IF new_type = "event" /\ ~_event_closes_inventory THEN {}
               ELSE {"housekeeping_state"}) |->
     CASE k = "blocking_type" -> new_type
       [] k = "blocking_reason" -> (IF reason # "NONE" THEN reason ELSE BlockingName)
       [] OTHER -> "out_of_service"]

\* the room_vals written when a blocking leaves active, is completed or
\* cancelled
reset_vals ==
  [k \in {"housekeeping_state", "blocking_type", "blocking_reason"} |->
     IF k = "housekeeping_state" THEN "inspected" ELSE "NONE"]

\* the room write of an activation
apply_impact(rec, new_type, reason) == room_write(rec, impact_vals(new_type, reason))

\* the room write when a blocking leaves active, is completed or cancelled
reset_room(rec) == room_write(rec, reset_vals)

\* HotelRoomBlocking.write on record id; vals maps the written keys to values,
\* tx is what becomes of the stored record if the room write that follows it
\* raises
blocking_write(blks, rm, id, vals, tx) ==
  LET rec == blks[id]
      has(k) == k \in DOMAIN vals
      start_date == IF has("start_date") THEN vals["start_date"] ELSE rec.start_date
      end_date == IF has("end_date") THEN vals["end_date"] ELSE rec.end_date
      room_id == IF has("room_id") THEN vals["room_id"] ELSE rec.room_id
      checked == has("start_date") \/ has("end_date") \/ has("room_id")
      err == IF checked /\ ~_validate_dates(start_date, end_date)
               THEN "ValidationError"
             ELSE IF checked /\ ~_check_room_availability(blks, room_id, start_date,
                                                          end_date, id)
               THEN "OverlapConflict"
             ELSE "none"
      written == [rec EXCEPT
                    !.start_date = start_date,
                    !.end_date = end_date,
                    !.room_id = room_id,
                    !.status = IF has("status") THEN vals["status"] ELSE @,
                    !.blocking_type = IF has("blocking_type") THEN vals["blocking_type"] ELSE @,
                    !.reason = IF has("reason") THEN vals["reason"] ELSE @]
      stored == [blks EXCEPT ![id] = written]
      impact == has("status") \/ has("blocking_type")
      prev_status == rec.status
      new_status == written.status
      prev_type == rec.blocking_type
      new_type == written.blocking_type
      r == written.room_id
      w == IF impact /\ prev_status # "active" /\ new_status = "active"
             THEN apply_impact(rm[r], new_type, written.reason)
           ELSE IF impact /\ prev_status = "active" /\ new_status # "active"
             THEN reset_room(rm[r])
           ELSE IF impact /\ new_status = "active" /\ prev_status = "active"
                          /\ prev_type # new_type
             THEN apply_impact(rm[r], new_type, written.reason)
           ELSE [error |-> "none", room |-> rm[r]]
  IN IF err # "none"
       THEN [error |-> err, tx |-> "none", blockings |-> blks, room |-> rm]
     ELSE IF w.error # "none"
       THEN [error |-> w.error, tx |-> tx,
             blockings |-> IF tx = "partial" THEN stored ELSE blks, room |-> rm]
     ELSE [error |-> "none", tx |-> "none", blockings |-> stored,
           room |-> [rm EXCEPT ![r] = w.room]]

\* the checks create makes for one element of vals_list
create_vals_error(blks, vals) ==
  IF ~_validate_dates(vals.start_date, vals.end_date) THEN "ValidationError"
  ELSE IF ~_check_room_availability(blks, vals.room_id, vals.start_date,
                                     vals.end_date, 0)
    THEN "OverlapConflict"
  ELSE "none"

\* the first error the loop over vals_list raises, checking every element
\* against the stored blockings only
create_error(blks, vals_list) ==
  LET bad == {i \in 1..Len(vals_list) : create_vals_error(blks, vals_list[i]) # "none"}
  IN IF bad = {} THEN "none"
     ELSE create_vals_error(blks, vals_list[CHOOSE i \in bad : \A j \in bad : i <= j])

CreateArg(vals_list) ==
  IF Len(vals_list) = 1
  THEN <<vals_list[1].start_date, vals_list[1].end_date>>
  ELSE <<vals_list[1].start_date, vals_list[1].end_date,
         vals_list[2].room_id, vals_list[2].start_date, vals_list[2].end_date>>

\* HotelRoomBlocking.create as called under the name op
do_create(op, vals_list) ==
  /\ Len(blockings) + Len(vals_list) <= MaxBlockings
  /\ LET err == create_error(blockings, vals_list)
     IN /\ blockings' = IF err = "none" THEN blockings \o vals_list ELSE blockings
        /\ last' = OutcomeArg(op, vals_list[1].room_id,
                              IF err = "none" THEN Len(blockings) + 1 ELSE 0,
                              CreateArg(vals_list), Result(err), "none")
  /\ UNCHANGED <<room, history, now, config, accepted, proc, requests>>

\* HotelRoomBlocking.create
create(vals_list) == do_create("create", vals_list)

\* a write or an action on blocking id, ended with res
ApplyBlocking(op, r, id, arg, res) ==
  /\ blockings' = res.blockings
  /\ room' = res.room
  /\ last' = OutcomeArg(op, r, id, arg, Result(res.error), res.tx)
  /\ UNCHANGED <<history, now, config, accepted, proc, requests>>

\* HotelRoomBlocking.write of start_date and end_date
write_dates(id, start_date, end_date) ==
  /\ id \in 1..Len(blockings)
  /\ \E tx \in TxOutcomes :
       ApplyBlocking("write_dates", blockings[id].room_id, id, <<start_date, end_date>>,
                     blocking_write(blockings, room, id,
                                    [k \in {"start_date", "end_date"} |->
                                       IF k = "start_date" THEN start_date ELSE end_date],
                                    tx))

\* HotelRoomBlocking.write of start_date alone
write_start_date(id, start_date) ==
  /\ id \in 1..Len(blockings)
  /\ \E tx \in TxOutcomes :
       ApplyBlocking("write_start_date", blockings[id].room_id, id, <<start_date>>,
                     blocking_write(blockings, room, id,
                                    [k \in {"start_date"} |-> start_date], tx))

\* HotelRoomBlocking.write of end_date alone
write_end_date(id, end_date) ==
  /\ id \in 1..Len(blockings)
  /\ \E tx \in TxOutcomes :
       ApplyBlocking("write_end_date", blockings[id].room_id, id, <<end_date>>,
                     blocking_write(blockings, room, id,
                                    [k \in {"end_date"} |-> end_date], tx))

\* HotelRoomBlocking.write of room_id
write_room(id, room_id) ==
  /\ id \in 1..Len(blockings)
  /\ \E tx \in TxOutcomes :
       ApplyBlocking("write_room", room_id, id, <<>>,
                     blocking_write(blockings, room, id, [k \in {"room_id"} |-> room_id], tx))

\* HotelRoomBlocking.write of blocking_type
write_type(id, new_type) ==
  /\ id \in 1..Len(blockings)
  /\ \E tx \in TxOutcomes :
       ApplyBlocking("write_type", blockings[id].room_id, id, <<new_type>>,
                     blocking_write(blockings, room, id,
                                    [k \in {"blocking_type"} |-> new_type], tx))

\* HotelRoomBlocking.write of status
write_status(id, status) ==
  /\ id \in 1..Len(blockings)
  /\ \E tx \in TxOutcomes :
       ApplyBlocking("write_status", blockings[id].room_id, id, <<status>>,
                     blocking_write(blockings, room, id, [k \in {"status"} |-> status], tx))

\* what action_activate does: the status write, then the room write
activate(blks, rm, id, tx) ==
  LET w == blocking_write(blks, rm, id, [k \in {"status"} |-> "active"], tx)
      rec == w.blockings[id]
      a == apply_impact(w.room[rec.room_id], rec.blocking_type, rec.reason)
  IN IF w.error # "none" THEN w
     ELSE IF a.error # "none" THEN
       [error |-> a.error, tx |-> tx,
        blockings |-> IF tx = "partial" THEN w.blockings ELSE blks,
        room |-> IF tx = "partial" THEN w.room ELSE rm]
     ELSE [error |-> "none", tx |-> "none", blockings |-> w.blockings,
           room |-> [w.room EXCEPT ![rec.room_id] = a.room]]

\* what action_complete and action_cancel do: the status write, then the
\* room write
finish(blks, rm, id, status, tx) ==
  LET w == blocking_write(blks, rm, id, [k \in {"status"} |-> status], tx)
      rec == w.blockings[id]
      a == reset_room(w.room[rec.room_id])
  IN IF w.error # "none" THEN w
     ELSE IF a.error # "none" THEN
       [error |-> a.error, tx |-> tx,
        blockings |-> IF tx = "partial" THEN w.blockings ELSE blks,
        room |-> IF tx = "partial" THEN w.room ELSE rm]
     ELSE [error |-> "none", tx |-> "none", blockings |-> w.blockings,
           room |-> [w.room EXCEPT ![rec.room_id] = a.room]]

action_activate(id) ==
  /\ id \in 1..Len(blockings)
  /\ \E tx \in TxOutcomes :
       ApplyBlocking("action_activate", blockings[id].room_id, id, <<>>,
                     activate(blockings, room, id, tx))

action_complete(id) ==
  /\ id \in 1..Len(blockings)
  /\ \E tx \in TxOutcomes :
       ApplyBlocking("action_complete", blockings[id].room_id, id, <<>>,
                     finish(blockings, room, id, "completed", tx))

action_cancel(id) ==
  /\ id \in 1..Len(blockings)
  /\ \E tx \in TxOutcomes :
       ApplyBlocking("action_cancel", blockings[id].room_id, id, <<>>,
                     finish(blockings, room, id, "cancelled", tx))

\* HotelRoomBlocking.cancel_blocking: a write of status and reason
cancel_blocking(blocking_id) ==
  IF blocking_id \notin 1..Len(blockings) THEN
    /\ last' = Outcome("cancel_blocking", NoRoom, blocking_id, "ValidationError", "none")
    /\ UNCHANGED <<room, blockings, history, now, config, accepted, proc, requests>>
  ELSE
    \E tx \in TxOutcomes :
      ApplyBlocking("cancel_blocking", blockings[blocking_id].room_id, blocking_id, <<>>,
                    blocking_write(blockings, room, blocking_id,
                                   [k \in {"status", "reason"} |->
                                      IF k = "status" THEN "cancelled" ELSE "Cancelled"],
                                   tx))

\* res.config.settings stores a Boolean parameter as 'True' or removes the key
set_param(key, value) ==
  /\ config' = [config EXCEPT ![key] = IF value THEN "True" ELSE "NONE"]
  /\ last' = Outcome("set_param", NoRoom, 0, "ok", "none")
  /\ UNCHANGED <<room, blockings, history, now, accepted, proc, requests>>

\* a blocking as create stores it
Vals(room_id, start_date, end_date, blocking_type, status) ==
  [room_id |-> room_id, start_date |-> start_date, end_date |-> end_date,
   blocking_type |-> blocking_type, status |-> status, reason |-> "NONE"]

\* HotelRoomBlocking.create_blocking_from_booking: an event blocking created
\* in status active
create_blocking_from_booking(room_id, start_date, end_date) ==
  do_create("create_blocking_from_booking",
            <<[Vals(room_id, start_date, end_date, "event", "active")
                 EXCEPT !.reason = "Booking"]>>)

\* new_state values of the calendar that name a room state
DropStates ==
  {"clean", "dirty", "make_up_room", "inspected", "out_of_service",
   "out_of_order", "house_use"}

\* HotelRoom.action_calendar_drop: a state is set through set_state (and the
\* reason written when one is given), 'blocked' creates a maintenance
\* blocking, any other value does nothing
action_calendar_drop(r, new_state, start_date, end_date, reason) ==
  IF new_state \in DropStates THEN
    /\ room' = [room EXCEPT ![r].state = new_state,
                            ![r].last_status_change = now,
                            ![r].status_change_reason =
                               IF reason # "NONE" THEN reason ELSE @]
    /\ last' = OutcomeArg("action_calendar_drop", r, 0, <<new_state>>, "ok", "none")
    /\ UNCHANGED <<blockings, history, now, config, accepted, proc, requests>>
  ELSE IF new_state = "blocked" THEN
    /\ Len(blockings) < MaxBlockings
    /\ LET vals == [Vals(r, start_date, end_date, "maintenance", "planned")
                      EXCEPT !.reason = IF reason # "NONE" THEN reason
                                        ELSE "Room blocked from calendar"]
           err == create_error(blockings, <<vals>>)
       IN /\ blockings' = IF err = "none" THEN Append(blockings, vals) ELSE blockings
          /\ last' = OutcomeArg("action_calendar_drop", r,
                                IF err = "none" THEN Len(blockings) + 1 ELSE 0,
                                <<new_state>>, Result(err), "none")
    /\ UNCHANGED <<room, history, now, config, accepted, proc, requests>>
  ELSE
    /\ last' = OutcomeArg("action_calendar_drop", r, 0, <<new_state>>, "ok", "none")
    /\ UNCHANGED <<room, blockings, history, now, config, accepted, proc, requests>>

(* --------------------------- availability ----------------------------- *)
\* a query called without a date passes False
NoDate == 0

\* the lambda of get_room_availability, the event exemption left out
closes_inventory_always(b) == TRUE

\* the lambda of get_room_availability: which blockings close inventory
closes_inventory(b) ==
  \/ b.blocking_type # "event"
  \/ (b.blocking_type = "event" /\ _event_closes_inventory)

\* HotelRoomBlocking.get_room_availability(...)['available']
get_room_availability(blks, room_id, start_date, end_date) ==
  IF start_date = NoDate \/ end_date = NoDate THEN TRUE
  ELSE LET found == {i \in 1..Len(blks) :
                       /\ blks[i].room_id = room_id
                       /\ blks[i].status \in {"planned", "active"}
                       /\ blks[i].start_date <= end_date
                       /\ blks[i].end_date >= start_date}
           closing_blockings == {i \in found : closes_inventory(blks[i])}
       IN Cardinality(closing_blockings) = 0

\* HotelRoom.is_sellable, planned blockings counted as well
is_sellable_planned(rm, blks, r) ==
  IF rm[r].state \notin {"clean", "inspected"} THEN FALSE
  ELSE IF require_inspected_to_sell /\ rm[r].state # "inspected" THEN FALSE
  ELSE IF {i \in 1..Len(blks) : blks[i].room_id = r /\ blks[i].status \in NonTerminal} # {}
    THEN FALSE
  ELSE TRUE

\* HotelRoom.is_sellable
is_sellable(rm, blks, r) ==
  IF rm[r].state \notin {"clean", "inspected"} THEN FALSE
  ELSE IF require_inspected_to_sell /\ rm[r].state # "inspected" THEN FALSE
  ELSE LET blocking_ids == {i \in 1..Len(blks) : blks[i].room_id = r}
           active_blockings == {i \in blocking_ids : blks[i].status = "active"}
       IN IF active_blockings # {} THEN FALSE ELSE TRUE

\* HotelRoom.get_availability, the housekeeping policy left out
get_availability_no_policy(rm, blks, r, start_date, end_date) ==
  /\ rm[r].state \in {"clean", "inspected"}
  /\ get_room_availability(blks, r, start_date, end_date)

\* HotelRoom.get_availability looking at the blockings alone
get_availability_any_state(rm, blks, r, start_date, end_date) ==
  get_room_availability(blks, r, start_date, end_date)

\* HotelRoom.get_availability(...)['available']
get_availability(rm, blks, r, start_date, end_date) ==
  LET blocking_available == get_room_availability(blks, r, start_date, end_date)
      state_available == rm[r].state \in {"clean", "inspected"}
      not_maintenance == rm[r].state \notin {"out_of_service", "out_of_order"}
      state_ok == IF require_inspected_to_sell THEN rm[r].state = "inspected"
                  ELSE state_available
  IN state_available /\ not_maintenance /\ blocking_available /\ state_ok

\* check_room_availability answering True whatever the room and its blockings
check_room_availability_always(rm, blks, room_id, start_date, end_date) == TRUE

\* HotelRoom.check_room_availability: False for an unknown room
check_room_availability(rm, blks, room_id, start_date, end_date) ==
  IF room_id \notin DOMAIN rm THEN FALSE
  ELSE get_availability(rm, blks, room_id, start_date, end_date)

Answer(b) == IF b THEN "True" ELSE "False"

\* the three queries, called; a query changes nothing
call_is_sellable(r) ==
  /\ last' = Outcome("is_sellable", r, 0, Answer(is_sellable(room, blockings, r)), "none")
  /\ UNCHANGED <<room, blockings, history, now, config, accepted, proc, requests>>

call_get_room_availability(r, start_date, end_date) ==
  /\ last' = OutcomeArg("get_room_availability", r, 0, <<start_date, end_date>>,
                        Answer(get_room_availability(blockings, r, start_date, end_date)),
                        "none")
  /\ UNCHANGED <<room, blockings, history, now, config, accepted, proc, requests>>

call_check_room_availability(r, start_date, end_date) ==
  /\ last' = OutcomeArg("check_room_availability", r, 0, <<start_date, end_date>>,
                        Answer(check_room_availability(room, blockings, r,
                                                       start_date, end_date)),
                        "none")
  /\ UNCHANGED <<room, blockings, history, now, config, accepted, proc, requests>>

(* ------------------------------ reserve ------------------------------- *)
\* callers of reserve_room running at the same time
Procs == {1, 2}

\* a room id no room has
UnknownRoom == Cardinality(Rooms) + 1

Idle == [pc |-> "idle", room |-> NoRoom, result |-> "none"]

\* reserve_room up to its availability check: unknown room and unavailable
\* room raise, otherwise the caller goes on to the action
reserve_room_check(p, room_id, start_date, end_date) ==
  /\ proc[p].pc = "idle"
  /\ IF room_id \notin DOMAIN room THEN
       proc' = [proc EXCEPT ![p] = [pc |-> "done", room |-> room_id, result |-> "NotFound"]]
     ELSE IF ~check_room_availability(room, blockings, room_id, start_date, end_date) THEN
       proc' = [proc EXCEPT ![p] = [pc |-> "done", room |-> room_id,
                                    result |-> "NotAvailable"]]
     ELSE
       proc' = [proc EXCEPT ![p] = [pc |-> "checked", room |-> room_id, result |-> "none"]]
  /\ last' = OutcomeArg("reserve_room_check", room_id, p, <<start_date, end_date>>,
                        IF proc'[p].pc = "checked" THEN "ok" ELSE proc'[p].result, "none")
  /\ UNCHANGED <<room, blockings, history, now, config, accepted, requests>>

\* reserve_room from its call of action_assign_house_use to its return
reserve_room_act(p) ==
  /\ proc[p].pc = "checked"
  /\ \E has_group \in BOOLEAN, tx \in TxOutcomes :
       LET r == proc[p].room
           t == transition(room, history, r, assign_house_use, has_group, tx)
       IN /\ room' = t.room
          /\ history' = t.history
          /\ accepted' = IF t.result = "ok" THEN [accepted EXCEPT ![r] = @ + 1]
                         ELSE accepted
          /\ proc' = [proc EXCEPT ![p] = [pc |-> "done", room |-> r, result |-> t.result]]
          /\ last' = Outcome("reserve_room", r, p, t.result, t.tx)
  /\ UNCHANGED <<blockings, now, config, requests>>

\* HotelRoom._compute_blocking_count: the stored count of the planned and
\* active blockings of room r, recomputed when a blocking of the room is
\* created or changes status
_compute_blocking_count(blks, r) ==
  Cardinality({i \in 1..Len(blks) : blks[i].room_id = r /\ blks[i].status \in NonTerminal})

\* the stored row of room r: its fields and its blocking_count
room_row(rm, blks, r) ==
  [fields |-> rm[r], blocking_count |-> _compute_blocking_count(blks, r)]

\* a caller of create or action_activate before its call
TxIdle ==
  [pc |-> "idle", op |-> "none", room |-> NoRoom, id |-> 0, start_date |-> NoDate,
   end_date |-> NoDate, vals |-> <<>>, seen |-> <<>>, result |-> "none"]

\* create of one blocking, from its call to the end of its checks: the
\* transaction reads the stored blockings and the row of the room
create_check(p, vals) ==
  /\ proc[p].pc = "idle"
  /\ Len(blockings) < MaxBlockings
  /\ LET err == create_vals_error(blockings, vals)
     IN /\ proc' = [proc EXCEPT ![p] =
                      [pc |-> IF err = "none" THEN "checked" ELSE "done",
                       op |-> "create", room |-> vals.room_id, id |-> 0,
                       start_date |-> vals.start_date, end_date |-> vals.end_date,
                       vals |-> <<vals>>,
                       seen |-> <<room_row(room, blockings, vals.room_id)>>,
                       result |-> err]]
        /\ last' = OutcomeArg("create_check", vals.room_id, p,
                              <<vals.start_date, vals.end_date>>, Result(err), "none")
  /\ UNCHANGED <<room, blockings, history, now, config, accepted, requests>>

\* create from super().create to the commit: the insert, and the update of
\* the room's row with the recomputed blocking_count, which the database
\* refuses when the row was updated by a transaction committed since this
\* one read it
create_insert(p) ==
  /\ proc[p].pc = "checked"
  /\ proc[p].op = "create"
  /\ LET r == proc[p].room
         stale == room_row(room, blockings, r) # proc[p].seen[1]
         res == IF stale THEN "SerializationFailure" ELSE "ok"
     IN /\ blockings' = IF stale THEN blockings ELSE Append(blockings, proc[p].vals[1])
        /\ proc' = [proc EXCEPT ![p].pc = "done", ![p].result = res,
                                ![p].id = IF stale THEN 0 ELSE Len(blockings) + 1]
        /\ last' = OutcomeArg("create", r, proc'[p].id,
                              <<proc[p].start_date, proc[p].end_date>>, res, "none")
  /\ UNCHANGED <<room, history, now, config, accepted, requests>>

\* action_activate from its call to its first write: the transaction reads
\* the blocking and the row of its room; nothing is checked
activate_read(p, id) ==
  /\ proc[p].pc = "idle"
  /\ id \in 1..Len(blockings)
  /\ proc' = [proc EXCEPT ![p] =
                [pc |-> "checked", op |-> "action_activate",
                 room |-> blockings[id].room_id, id |-> id,
                 start_date |-> blockings[id].start_date,
                 end_date |-> blockings[id].end_date, vals |-> <<>>,
                 seen |-> <<room_row(room, blockings, blockings[id].room_id)>>,
                 result |-> "none"]]
  /\ last' = OutcomeArg("activate_read", blockings[id].room_id, id, <<>>, "ok", "none")
  /\ UNCHANGED <<room, blockings, history, now, config, accepted, requests>>

\* action_activate from its status write to the commit: the writes of the
\* blocking and of the room's row, refused by the database when the row was
\* updated by a transaction committed since this one read it
activate_write(p) ==
  /\ proc[p].pc = "checked"
  /\ proc[p].op = "action_activate"
  /\ \E tx \in TxOutcomes :
       LET r == proc[p].room
           stale == room_row(room, blockings, r) # proc[p].seen[1]
           a == activate(blockings, room, proc[p].id, tx)
           res == IF stale THEN "SerializationFailure" ELSE Result(a.error)
       IN /\ blockings' = IF stale THEN blockings ELSE a.blockings
          /\ room' = IF stale THEN room ELSE a.room
          /\ proc' = [proc EXCEPT ![p].pc = "done", ![p].result = res]
          /\ last' = OutcomeArg("action_activate", r, proc[p].id, <<>>, res,
                                IF stale THEN "none" ELSE a.tx)
  /\ UNCHANGED <<history, now, config, accepted, requests>>

\* HotelRoomStatusHistory.get_room_status_timeline, called
get_room_status_timeline(room_id, start_date, end_date) ==
  /\ \E order \in timeline_orders(history, room_id, start_date, end_date) :
       last' = OutcomeArg("get_room_status_timeline", room_id, 0, order, "ok", "none")
  /\ UNCHANGED <<room, blockings, history, now, config, accepted, proc, requests>>

\* HotelRoomStatusHistory.create_status_change, called with values of the
\* caller's choosing
call_create_status_change(room_id, change_type, old_values, new_values) ==
  /\ Len(history) < MaxHistory
  /\ LET created == create_status_change(history, room_id, change_type,
                                         old_values, new_values, "NONE")
     IN /\ history' = created.history
        /\ last' = OutcomeArg("create_status_change", room_id, 0,
                              <<change_type, old_values, new_values>>,
                              Result(created.error), "none")
  /\ UNCHANGED <<room, blockings, now, config, accepted, proc, requests>>

\* HotelRoom.unlink: the room is deleted and, room_id being ondelete='cascade'
\* on both models, so are its history entries and its blockings
unlink(r) ==
  /\ room' = [x \in DOMAIN room \ {r} |-> room[x]]
  /\ history' = SelectSeq(history, LAMBDA entry : entry.room_id # r)
  /\ blockings' = SelectSeq(blockings, LAMBDA b : b.room_id # r)
  /\ last' = Outcome("unlink", r, 0, "ok", "none")
  /\ UNCHANGED <<now, config, accepted, proc, requests>>

(* ------------------------ maintenance requests ------------------------- *)
\* hotel.maintenance.request status selection
RequestStatuses ==
  {"draft", "submitted", "assigned", "in_progress", "completed", "cancelled", "on_hold"}

\* a Datetime or Many2one field with no value
Unset == 0 - 1

\* HotelMaintenanceRequest.create: a request with the field defaults
request_create ==
  /\ Len(requests) < MaxRequests
  /\ requests' = Append(requests,
                        [status |-> "draft", assigned_to |-> Unset,
                         requested_date |-> now, start_date |-> Unset,
                         completion_date |-> Unset])
  /\ last' = Outcome("request_create", NoRoom, Len(requests) + 1, "ok", "none")
  /\ UNCHANGED <<room, blockings, history, now, config, accepted, proc>>

\* a method of request id: refused with ValidationError outside the statuses
\* in from, otherwise one write of vals
request_action(op, id, from, vals) ==
  /\ id \in 1..Len(requests)
  /\ IF requests[id].status \notin from THEN
       /\ last' = Outcome(op, NoRoom, id, "ValidationError", "none")
       /\ UNCHANGED requests
     ELSE
       /\ requests' = [requests EXCEPT ![id] =
                         [f \in DOMAIN @ |-> IF f \in DOMAIN vals THEN vals[f] ELSE @[f]]]
       /\ last' = Outcome(op, NoRoom, id, "ok", "none")
  /\ UNCHANGED <<room, blockings, history, now, config, accepted, proc>>

\* HotelMaintenanceRequest.action_submit
request_submit(id) ==
  request_action("request_submit", id, {"draft"},
                 [f \in {"status", "requested_date"} |->
                    IF f = "status" THEN "submitted" ELSE now])

\* HotelMaintenanceRequest.action_assign
request_assign(id, user_id) ==
  request_action("request_assign", id, {"submitted", "assigned"},
                 [f \in {"status", "assigned_to"} |->
                    IF f = "status" THEN "assigned" ELSE user_id])

\* HotelMaintenanceRequest.action_start
request_start(id) ==
  request_action("request_start", id, {"assigned"},
                 [f \in {"status", "start_date"} |->
                    IF f = "status" THEN "in_progress" ELSE now])

\* HotelMaintenanceRequest.action_complete
request_complete(id) ==
  request_action("request_complete", id, {"in_progress"},
                 [f \in {"status", "completion_date"} |->
                    IF f = "status" THEN "completed" ELSE now])

\* HotelMaintenanceRequest.action_cancel
request_cancel(id) ==
  request_action("request_cancel", id, RequestStatuses \ {"completed", "cancelled"},
                 [f \in {"status"} |-> "cancelled"])

\* HotelMaintenanceRequest.action_hold
request_hold(id) ==
  request_action("request_hold", id, {"assigned", "in_progress"},
                 [f \in {"status"} |-> "on_hold"])

\* HotelMaintenanceRequest.action_resume
request_resume(id) ==
  request_action("request_resume", id, {"on_hold"},
                 [f \in {"status"} |-> "in_progress"])

\* fields.Datetime.now() advances between calls
Tick ==
  /\ now < MaxTime
  /\ now' = now + 1
  /\ last' = Outcome("tick", NoRoom, 0, "ok", "none")
  /\ UNCHANGED <<room, blockings, history, config, accepted, proc, requests>>

(* --------------------------- specification ---------------------------- *)
InitConfig ==
  [k \in {"require_inspected_to_sell", "event_closes_inventory"} |-> "NONE"]

InitRoom ==
  /\ room = [r \in Rooms |-> NewRoom]
  /\ blockings = <<>>
  /\ history = <<>>
  /\ now = 0
  /\ config = InitConfig
  /\ last = NoOp
  /\ accepted = [r \in Rooms |-> 0]
  /\ proc = <<>>
  /\ requests = <<>>

NextRoom ==
  \/ \E r \in Rooms : action_assign_house_use(r)
  \/ \E r \in Rooms : action_staff_checkout(r)
  \/ \E r \in Rooms : action_check_in(r)
  \/ \E r \in Rooms : action_check_out(r)
  \/ \E r \in Rooms : action_room_ready_for_cleaning(r)
  \/ \E r \in Rooms : action_start_cleaning(r)
  \/ \E r \in Rooms : action_finish_cleaning(r)
  \/ \E r \in Rooms : action_final_inspection(r)
  \/ \E r \in Rooms : action_maintenance_light(r)
  \/ \E r \in Rooms : action_maintenance_heavy(r)
  \/ \E r \in Rooms : action_complete_maintenance(r)
  \/ Tick

\* the action_* handlers on every room
SpecRoom == InitRoom /\ [][NextRoom]_vars

\* values callers pass to set_state: a state it accepts, a room state it
\* refuses, and a value that is no room state
StateInputs == {"house_use", "check_in", "reserved"}

\* values the calendar passes: a state, a blocking, and a value that is
\* neither
DropInputs == {"make_up_room", "blocked", "reserved"}

DropReasons == {"NONE", "Calendar"}

\* the action_* handlers together with set_state, the mark_* helpers and the
\* calendar drop, on one room and within one second of the clock
NextRoomOps ==
  \/ \E r \in OneRoom : action_assign_house_use(r)
  \/ \E r \in OneRoom : action_staff_checkout(r)
  \/ \E r \in OneRoom : action_check_in(r)
  \/ \E r \in OneRoom : action_check_out(r)
  \/ \E r \in OneRoom : action_room_ready_for_cleaning(r)
  \/ \E r \in OneRoom : action_start_cleaning(r)
  \/ \E r \in OneRoom : action_finish_cleaning(r)
  \/ \E r \in OneRoom : action_final_inspection(r)
  \/ \E r \in OneRoom : action_maintenance_light(r)
  \/ \E r \in OneRoom : action_maintenance_heavy(r)
  \/ \E r \in OneRoom : action_complete_maintenance(r)
  \/ \E r \in OneRoom, new_state \in StateInputs : set_state(r, new_state)
  \/ \E r \in OneRoom : mark_dirty(r)
  \/ \E r \in OneRoom : mark_clean(r)
  \/ \E r \in OneRoom : mark_inspected(r)
  \/ \E r \in OneRoom : mark_out_of_service(r)
  \/ \E r \in OneRoom, new_state \in DropInputs, reason \in DropReasons :
        action_calendar_drop(r, new_state, 1, 1, reason)

SpecRoomOps == InitRoom /\ [][NextRoomOps]_vars

(* the action_* handlers and mark_inspected on one room, and the timeline   *)
(* of the room read back                                                    *)
NextTimeline ==
  \/ \E r \in OneRoom : action_assign_house_use(r)
  \/ \E r \in OneRoom : action_staff_checkout(r)
  \/ \E r \in OneRoom : action_check_in(r)
  \/ \E r \in OneRoom : action_check_out(r)
  \/ \E r \in OneRoom : action_room_ready_for_cleaning(r)
  \/ \E r \in OneRoom : action_start_cleaning(r)
  \/ \E r \in OneRoom : action_finish_cleaning(r)
  \/ \E r \in OneRoom : action_final_inspection(r)
  \/ \E r \in OneRoom : action_maintenance_light(r)
  \/ \E r \in OneRoom : action_maintenance_heavy(r)
  \/ \E r \in OneRoom : action_complete_maintenance(r)
  \/ \E r \in OneRoom : mark_inspected(r)
  \/ \E r \in OneRoom, s \in Times, e \in Times : get_room_status_timeline(r, s, e)
  \/ Tick

SpecTimeline == InitRoom /\ [][NextTimeline]_vars

(* history records appended with values of the caller's choosing, for the  *)
(* rooms there are, and rooms deleted                                       *)
AppendTypes == {"fo", "hk"}

AppendOld == {[state |-> "clean", maintenance_required |-> FALSE]}

AppendNew ==
  {[state |-> st, maintenance_required |-> m] :
     st \in {"clean", "dirty", "check_in"}, m \in BOOLEAN}

NextAppend ==
  \/ \E r \in DOMAIN room, ct \in AppendTypes, old \in AppendOld, new \in AppendNew :
        call_create_status_change(r, ct, old, new)
  \/ \E r \in DOMAIN room : unlink(r)
  \/ Tick

SpecAppend == InitRoom /\ [][NextAppend]_vars

(* the handlers called on one room by users of every mix of groups         *)
NextAccess ==
  \/ \E r \in OneRoom, h \in Handlers, groups \in SUBSET Groups : call_as(r, h, groups)
  \/ Tick

SpecAccess == InitRoom /\ [][NextAccess]_vars

(* maintenance requests created and taken through their methods           *)
NextRequest ==
  \/ request_create
  \/ \E id \in 1..MaxRequests : request_submit(id)
  \/ \E id \in 1..MaxRequests, user_id \in 1..2 : request_assign(id, user_id)
  \/ \E id \in 1..MaxRequests : request_start(id)
  \/ \E id \in 1..MaxRequests : request_complete(id)
  \/ \E id \in 1..MaxRequests : request_cancel(id)
  \/ \E id \in 1..MaxRequests : request_hold(id)
  \/ \E id \in 1..MaxRequests : request_resume(id)
  \/ Tick

SpecRequest == InitRoom /\ [][NextRequest]_vars

(* blockings of every room: create (one or two intervals a call), write,   *)
(* activate, complete, cancel                                              *)
OverlapTypes == {"maintenance"}

OverlapVals ==
  {Vals(r, s, e, t, st) : r \in Rooms, s \in Dates, e \in Dates,
                          t \in OverlapTypes, st \in NonTerminal}

NextOverlap ==
  \/ \E v \in OverlapVals : create(<<v>>)
  \/ \E v1 \in OverlapVals, v2 \in OverlapVals : create(<<v1, v2>>)
  \/ \E id \in 1..MaxBlockings, s \in Dates, e \in Dates : write_dates(id, s, e)
  \/ \E id \in 1..MaxBlockings, d \in Dates : write_start_date(id, d)
  \/ \E id \in 1..MaxBlockings, d \in Dates : write_end_date(id, d)
  \/ \E id \in 1..MaxBlockings, r \in Rooms : write_room(id, r)
  \/ \E id \in 1..MaxBlockings : action_activate(id)
  \/ \E id \in 1..MaxBlockings : action_complete(id)
  \/ \E id \in 1..MaxBlockings : action_cancel(id)

SpecOverlap == InitRoom /\ [][NextOverlap]_vars

(* the life of the blockings of one room over one day: create, create from *)
(* a booking, write of type and status, activate, complete, cancel, and the *)
(* setting                                                                  *)
LifeTypes == {"maintenance", "event"}

LifeDay == 1

LifeVals == {Vals(r, LifeDay, LifeDay, t, "planned") : r \in OneRoom, t \in LifeTypes}

NextBlocking ==
  \/ \E v \in LifeVals : create(<<v>>)
  \/ \E r \in OneRoom : create_blocking_from_booking(r, LifeDay, LifeDay)
  \/ \E id \in 1..MaxBlockings, t \in LifeTypes : write_type(id, t)
  \/ \E id \in 1..MaxBlockings, st \in BlockingStatuses : write_status(id, st)
  \/ \E id \in 1..MaxBlockings : action_activate(id)
  \/ \E id \in 1..MaxBlockings : action_complete(id)
  \/ \E id \in 1..MaxBlockings : action_cancel(id)
  \/ \E id \in 1..MaxBlockings : cancel_blocking(id)
  \/ \E value \in BOOLEAN : set_param("event_closes_inventory", value)

SpecBlocking == InitRoom /\ [][NextBlocking]_vars

(* blockings of one room closed and their days taken again: create, the    *)
(* ways to complete and cancel, and the availability of a range             *)
ReleaseVals ==
  {Vals(r, s, e, t, "planned") : r \in OneRoom, s \in Dates, e \in Dates, t \in LifeTypes}

NextRelease ==
  \/ \E v \in ReleaseVals : create(<<v>>)
  \/ \E id \in 1..MaxBlockings : action_activate(id)
  \/ \E id \in 1..MaxBlockings : action_complete(id)
  \/ \E id \in 1..MaxBlockings : action_cancel(id)
  \/ \E id \in 1..MaxBlockings : cancel_blocking(id)
  \/ \E r \in OneRoom, s \in Dates, e \in Dates : call_get_room_availability(r, s, e)

SpecRelease == InitRoom /\ [][NextRelease]_vars

(* two rooms side by side: transitions, a reserve, and blockings created,   *)
(* activated, completed and cancelled                                       *)
SideVals ==
  {Vals(r, s, e, t, "planned") : r \in Rooms, s \in Dates, e \in {MaxDate},
                                 t \in OverlapTypes}

InitRooms ==
  /\ room = [r \in Rooms |-> NewRoom]
  /\ blockings = <<>>
  /\ history = <<>>
  /\ now = 0
  /\ config = InitConfig
  /\ last = NoOp
  /\ accepted = [r \in Rooms |-> 0]
  /\ proc = [p \in Procs |-> Idle]
  /\ requests = <<>>

NextRooms ==
  \/ \E r \in Rooms : action_assign_house_use(r)
  \/ \E r \in Rooms : reserve_room_check(1, r, LifeDay, LifeDay)
  \/ reserve_room_act(1)
  \/ \E v \in SideVals : create(<<v>>)
  \/ \E id \in 1..MaxBlockings : action_activate(id)
  \/ \E id \in 1..MaxBlockings : action_complete(id)
  \/ \E id \in 1..MaxBlockings : action_cancel(id)

SpecRooms == InitRooms /\ [][NextRooms]_vars

(* two callers at once on the blockings of the rooms: each creates one      *)
(* event blocking or activates a stored one, in two steps                   *)
ConcurrentVals ==
  {Vals(r, s, e, "event", "planned") : r \in Rooms, s \in Dates, e \in Dates}

\* no blocking yet, or a cancelled one and a planned one created after it
\* over the same day of the same room
ConcurrentBlockings ==
  {<<>>, <<Vals(1, LifeDay, LifeDay, "event", "cancelled"),
           Vals(1, LifeDay, LifeDay, "event", "planned")>>}

InitConcurrent ==
  /\ room = [r \in Rooms |-> NewRoom]
  /\ blockings \in ConcurrentBlockings
  /\ history = <<>>
  /\ now = 0
  /\ config = InitConfig
  /\ last = NoOp
  /\ accepted = [r \in Rooms |-> 0]
  /\ proc = [p \in Procs |-> TxIdle]
  /\ requests = <<>>

NextConcurrent ==
  \/ \E p \in Procs, v \in ConcurrentVals : create_check(p, v)
  \/ \E p \in Procs : create_insert(p)
  \/ \E p \in Procs, id \in 1..MaxBlockings : activate_read(p, id)
  \/ \E p \in Procs : activate_write(p)

SpecConcurrent == InitConcurrent /\ [][NextConcurrent]_vars

(* blockings of one room stored planned or active, activated and retyped,   *)
(* the setting either way and the room dirtied and cleaned in between       *)
RetypeVals ==
  {Vals(r, LifeDay, LifeDay, t, st) : r \in OneRoom, t \in LifeTypes, st \in NonTerminal}

NextRetype ==
  \/ \E v \in RetypeVals : create(<<v>>)
  \/ \E id \in 1..MaxBlockings : action_activate(id)
  \/ \E id \in 1..MaxBlockings, t \in LifeTypes : write_type(id, t)
  \/ \E value \in BOOLEAN : set_param("event_closes_inventory", value)
  \/ \E r \in OneRoom : mark_dirty(r)
  \/ \E r \in OneRoom : mark_clean(r)

SpecRetype == InitRoom /\ [][NextRetype]_vars

(* event and maintenance blockings of one room with the setting either way, *)
(* the room dirtied and cleaned in between, and the availability check      *)
EventVals ==
  {Vals(r, s, e, t, "planned") : r \in OneRoom, s \in Dates, e \in Dates, t \in LifeTypes}

NextEvent ==
  \/ \E v \in EventVals : create(<<v>>)
  \/ \E id \in 1..MaxBlockings : action_activate(id)
  \/ \E value \in BOOLEAN : set_param("event_closes_inventory", value)
  \/ \E r \in OneRoom : mark_dirty(r)
  \/ \E r \in OneRoom : mark_clean(r)
  \/ \E r \in OneRoom, s \in Dates, e \in Dates : call_check_room_availability(r, s, e)

SpecEvent == InitRoom /\ [][NextEvent]_vars

(* the availability queries, over every stored set of blockings, room      *)
(* state and setting                                                       *)
AvailTypes == {"maintenance", "event"}

AvailStates == {"clean", "inspected", "dirty"}

AvailBlockings ==
  {[room_id |-> r, start_date |-> s, end_date |-> e, blocking_type |-> t,
    status |-> st, reason |-> "NONE"] :
     r \in Rooms, s \in Dates, e \in Dates, t \in AvailTypes, st \in BlockingStatuses}

StoredBlockings ==
  {b \in AvailBlockings : b.start_date <= b.end_date}

BlockingLists ==
  UNION {[1..n -> StoredBlockings] : n \in 0..MaxBlockings}

QueryRanges ==
  {<<s, e>> : s \in Dates, e \in Dates} \cup {<<NoDate, NoDate>>}

InitAvail ==
  /\ \E st \in AvailStates : room = [r \in Rooms |-> IF r \in OneRoom
                                                     THEN [NewRoom EXCEPT !.state = st]
                                                     ELSE NewRoom]
  /\ blockings \in BlockingLists
  /\ history = <<>>
  /\ now = 0
  /\ config \in [DOMAIN InitConfig -> ParamValues]
  /\ last = NoOp
  /\ accepted = [r \in Rooms |-> 0]
  /\ proc = <<>>
  /\ requests = <<>>

NextAvail ==
  \/ \E r \in OneRoom : call_is_sellable(r)
  \/ \E r \in OneRoom, q \in QueryRanges : call_get_room_availability(r, q[1], q[2])
  \/ \E r \in OneRoom, q \in QueryRanges : call_check_room_availability(r, q[1], q[2])

SpecAvail == InitAvail /\ [][NextAvail]_vars

\* the overlap of two inclusive ranges
Overlaps(s1, e1, s2, e2) == s1 <= e2 /\ s2 <= e1

RoomBlockings(r) == {i \in 1..Len(blockings) : blockings[i].room_id = r}

requireInspectedToSell == config["require_inspected_to_sell"] = "True"

eventClosesInventory == config["event_closes_inventory"] = "True"

\* C7: is_sellable is true exactly when the state is clean or inspected, the
\* inspected policy is met, and no interval of the room is active.
C7_IsSellable ==
  last.op = "is_sellable" =>
    ((last.result = "True") <=>
       /\ room[last.room].state \in {"clean", "inspected"}
       /\ (~requireInspectedToSell \/ room[last.room].state = "inspected")
       /\ \A i \in RoomBlockings(last.room) : blockings[i].status # "active")

\* C7 witness: with the inspected policy on, a clean room that has no active
\* interval but a planned one is not sellable.
C7_Witness ==
  /\ last.op = "is_sellable"
  /\ last.result = "False"
  /\ requireInspectedToSell
  /\ room[last.room].state = "clean"
  /\ \A i \in RoomBlockings(last.room) : blockings[i].status # "active"
  /\ \E i \in RoomBlockings(last.room) : blockings[i].status = "planned"

StateSellable(r) ==
  /\ room[r].state \in {"clean", "inspected"}
  /\ (~requireInspectedToSell \/ room[r].state = "inspected")

IsCheck == last.op = "check_room_availability"

\* C8 as stated: checkAvailability.available equals is_sellable AND
\* queryAvailability.available.
C8_AvailableIsSellableAndQuery ==
  IsCheck =>
    ((last.result = "True") <=>
       /\ is_sellable(room, blockings, last.room)
       /\ get_room_availability(blockings, last.room, last.arg[1], last.arg[2]))

\* C8 amended: checkAvailability.available equals the state conditions of
\* is_sellable (clean or inspected, inspected policy met) AND
\* queryAvailability.available; active intervals count only through the query.
C8_AvailableIsStateAndQuery ==
  IsCheck =>
    ((last.result = "True") <=>
       /\ StateSellable(last.room)
       /\ get_room_availability(blockings, last.room, last.arg[1], last.arg[2]))

\* C8 witness: a room reported available for a range while an active interval
\* makes it not sellable.
C8_Witness ==
  /\ IsCheck
  /\ last.result = "True"
  /\ last.arg[1] # NoDate
  /\ ~is_sellable(room, blockings, last.room)

\* every type closes inventory, except event while eventClosesInventory is off
ClosesInventory(t) == t # "event" \/ eventClosesInventory

\* C9: queryAvailability.available is true exactly when no interval of the
\* room overlapping the range is planned or active and inventory-closing.
C9_QueryAvailability ==
  (last.op = "get_room_availability" /\ last.arg[1] # NoDate) =>
    ((last.result = "True") <=>
       ~ \E i \in RoomBlockings(last.room) :
           /\ Overlaps(blockings[i].start_date, blockings[i].end_date,
                       last.arg[1], last.arg[2])
           /\ blockings[i].status \in {"planned", "active"}
           /\ ClosesInventory(blockings[i].blocking_type))

\* C9 witness: a range reported available although an active event and a
\* completed maintenance interval of the room overlap it.
C9_Witness ==
  /\ last.op = "get_room_availability"
  /\ last.result = "True"
  /\ last.arg[1] # NoDate
  /\ \E i \in RoomBlockings(last.room) :
       /\ Overlaps(blockings[i].start_date, blockings[i].end_date, last.arg[1], last.arg[2])
       /\ blockings[i].status = "active"
       /\ blockings[i].blocking_type = "event"
  /\ \E i \in RoomBlockings(last.room) :
       /\ Overlaps(blockings[i].start_date, blockings[i].end_date, last.arg[1], last.arg[2])
       /\ blockings[i].status = "completed"
       /\ blockings[i].blocking_type = "maintenance"

\* C1: no two distinct planned or active intervals of one room overlap.
C1_NoOverlap ==
  \A i \in 1..Len(blockings), j \in 1..Len(blockings) :
    (/\ i # j
     /\ blockings[i].room_id = blockings[j].room_id
     /\ blockings[i].status \in NonTerminal
     /\ blockings[j].status \in NonTerminal)
    => ~Overlaps(blockings[i].start_date, blockings[i].end_date,
                 blockings[j].start_date, blockings[j].end_date)

IsCreateOne == last'.op = "create" /\ Len(last'.arg) = 2 /\ last'.arg[1] <= last'.arg[2]

\* C6: create of one interval with valid dates is rejected with
\* OverlapConflict exactly when a planned or active interval of the same room
\* has start <= new end and end >= new start; a rejected create changes
\* neither the stored intervals nor the room.
C6_CreateRejectsIffOverlap ==
  [][IsCreateOne =>
       /\ (last'.result = "OverlapConflict") <=>
            \E i \in RoomBlockings(last'.room) :
              /\ blockings[i].status \in {"planned", "active"}
              /\ blockings[i].start_date <= last'.arg[2]
              /\ blockings[i].end_date >= last'.arg[1]
       /\ last'.result \in {"ok", "OverlapConflict"}
       /\ last'.result = "OverlapConflict" => (blockings' = blockings /\ room' = room)
       /\ last'.result = "ok" => Len(blockings') = Len(blockings) + 1]_vars

\* C6 witness: a create refused for sharing a single day with a stored
\* interval.
C6_Witness ==
  /\ last.op = "create"
  /\ Len(last.arg) = 2
  /\ last.result = "OverlapConflict"
  /\ \E i \in RoomBlockings(last.room) :
       /\ blockings[i].status \in NonTerminal
       /\ blockings[i].end_date = last.arg[1]
       /\ blockings[i].start_date < last.arg[1]

(* two callers of reserve_room, each step of one interleaved with the      *)
(* steps of the other                                                      *)
ReserveStates == {"clean", "inspected", "dirty"}

ReserveBlockings ==
  {<<>>, <<Vals(1, 1, 1, "maintenance", "planned")>>}

ReserveRanges == {<<1, 1>>, <<MaxDate, MaxDate>>}

InitReserve ==
  /\ room \in [Rooms -> {[NewRoom EXCEPT !.state = st] : st \in ReserveStates}]
  /\ blockings \in ReserveBlockings
  /\ history = <<>>
  /\ now = 0
  /\ config = InitConfig
  /\ last = NoOp
  /\ accepted = [r \in Rooms |-> 0]
  /\ proc = [p \in Procs |-> Idle]
  /\ requests = <<>>

NextReserve ==
  \/ \E p \in Procs, r \in Rooms \cup {UnknownRoom}, q \in ReserveRanges :
        reserve_room_check(p, r, q[1], q[2])
  \/ \E p \in Procs : reserve_room_act(p)
  \/ Tick

SpecReserve == InitReserve /\ [][NextReserve]_vars

TableActions ==
  {"action_check_in", "action_check_out", "action_room_ready_for_cleaning",
   "action_start_cleaning", "action_finish_cleaning", "action_final_inspection",
   "action_assign_house_use", "action_staff_checkout", "action_maintenance_light",
   "action_maintenance_heavy", "action_complete_maintenance"}

TableFrom(m) ==
  CASE m = "action_check_in" -> {"clean", "inspected"}
    [] m = "action_check_out" -> {"check_in"}
    [] m = "action_room_ready_for_cleaning" -> {"check_out"}
    [] m = "action_start_cleaning" -> {"dirty"}
    [] m = "action_finish_cleaning" -> {"make_up_room"}
    [] m = "action_final_inspection" -> {"inspected"}
    [] m = "action_assign_house_use" -> {"clean", "inspected"}
    [] m = "action_staff_checkout" -> {"house_use"}
    [] m = "action_maintenance_light" -> {"clean"}
    [] m = "action_maintenance_heavy" -> {"clean"}
    [] m = "action_complete_maintenance" -> {"out_of_service", "out_of_order"}
    [] OTHER -> {}

TableTo(m) ==
  CASE m = "action_check_in" -> "check_in"
    [] m = "action_check_out" -> "check_out"
    [] m = "action_room_ready_for_cleaning" -> "dirty"
    [] m = "action_start_cleaning" -> "make_up_room"
    [] m = "action_finish_cleaning" -> "inspected"
    [] m = "action_final_inspection" -> "clean"
    [] m = "action_assign_house_use" -> "house_use"
    [] m = "action_staff_checkout" -> "dirty"
    [] m = "action_maintenance_light" -> "out_of_service"
    [] m = "action_maintenance_heavy" -> "out_of_order"
    [] m = "action_complete_maintenance" -> "clean"
    [] OTHER -> "NONE"

\* the step just taken was a call of a table action by a caller holding the
\* capability
ActionStep == last'.op \in TableActions /\ last'.result # "AccessDenied"

RoomHistory(hist, r) == {i \in 1..Len(hist) : hist[i].room_id = r}

\* C2: each action is accepted exactly from the states the table lists for it
\* and moves the room to the listed target.
C2_TransitionTable ==
  [][ActionStep =>
        /\ (last'.result = "ok") <=> (room[last'.room].state \in TableFrom(last'.op))
        /\ last'.result = "ok" => room'[last'.room].state = TableTo(last'.op)]_vars

\* C3: an action called from a state not listed for it fails with
\* InvalidTransition and changes neither the room nor the history.
C3_RejectedChangesNothing ==
  [][(ActionStep /\ room[last'.room].state \notin TableFrom(last'.op)) =>
        /\ last'.result = "InvalidTransition"
        /\ room' = room
        /\ history' = history]_vars

\* C3 witness: start_cleaning was refused on a room that is checked in.
C3_Witness ==
  /\ last.op = "action_start_cleaning"
  /\ last.result = "InvalidTransition"
  /\ room[last.room].state = "check_in"
  /\ history = <<>>

\* C4: an accepted transition appends exactly one entry, for its room and with
\* a real change; a rejected one appends none; a room has as many entries as
\* accepted transitions.
C4_OneEntryPerAccepted ==
  /\ [](\A r \in Rooms : Cardinality(RoomHistory(history, r)) = accepted[r])
  /\ [][IF last'.op \in TableActions /\ last'.result = "ok"
        THEN /\ Len(history') = Len(history) + 1
             /\ SubSeq(history', 1, Len(history)) = history
             /\ history'[Len(history')].room_id = last'.room
             /\ \/ history'[Len(history')].old_state # history'[Len(history')].new_state
                \/ history'[Len(history')].old_maintenance_required
                     # history'[Len(history')].new_maintenance_required
        ELSE history' = history]_vars

\* C4 witness: a room with two accepted transitions and two entries.
C4_Witness ==
  \E r \in Rooms : accepted[r] = 2 /\ Cardinality(RoomHistory(history, r)) = 2

\* C5: no action changes a room's state without the matching history entry
\* being appended in the same step.
C5_RoomAndHistoryIndivisible ==
  [][\A r \in Rooms :
        (last'.op \in TableActions /\ room'[r].state # room[r].state) =>
          /\ Len(history') = Len(history) + 1
          /\ history'[Len(history')].room_id = r
          /\ history'[Len(history')].old_state = room[r].state
          /\ history'[Len(history')].new_state = room'[r].state]_vars

(* ------------------------- the life of a blocking ----------------------- *)
Terminal == {"completed", "cancelled"}

\* the step just taken was a call of op on a stored blocking
BlockingStep(ops) == last'.op \in ops /\ last'.id \in 1..Len(blockings)

\* C11: an interval whose status is completed or cancelled keeps that status
\* in every later state.
C11_TerminalStays ==
  [][\A i \in 1..Len(blockings) :
       blockings[i].status \in Terminal => blockings'[i].status = blockings[i].status]_vars

\* C12: complete or cancel of an interval that is already completed or
\* cancelled is rejected with AlreadyTerminal and changes neither the
\* interval nor the room.
C12_SecondCloseRejected ==
  [][(/\ BlockingStep({"action_complete", "action_cancel", "cancel_blocking"})
      /\ blockings[last'.id].status \in Terminal) =>
        /\ last'.result = "AlreadyTerminal"
        /\ blockings' = blockings
        /\ room' = room]_vars

\* C13: activate sets the interval active and the room's blocking type and
\* reason from the interval, and sets the room out of service unless the
\* interval is an event while eventClosesInventory is off, when the room's
\* state stays as it was.
C13_ActivateSetsRoom ==
  [][BlockingStep({"action_activate"}) =>
       LET b == blockings[last'.id]
           r == b.room_id
       IN /\ last'.result = "ok"
          /\ blockings'[last'.id].status = "active"
          /\ room'[r].blocking_type = b.blocking_type
          /\ room'[r].blocking_reason # "NONE"
          /\ IF b.blocking_type = "event" /\ ~eventClosesInventory
             THEN room'[r].state = room[r].state
             ELSE room'[r].state = "out_of_service"]_vars

\* C14: complete or cancel of a planned or active interval sets its status to
\* completed or cancelled, resets the room to inspected and clears the room's
\* blocking type and reason.
C14_CloseResetsRoom ==
  [][(/\ BlockingStep({"action_complete", "action_cancel"})
      /\ blockings[last'.id].status \in NonTerminal) =>
        LET r == blockings[last'.id].room_id
        IN /\ last'.result = "ok"
           /\ blockings'[last'.id].status =
                (IF last'.op = "action_complete" THEN "completed" ELSE "cancelled")
           /\ room'[r].state = "inspected"
           /\ room'[r].blocking_type = "NONE"
           /\ room'[r].blocking_reason = "NONE"]_vars

(* ------------------------------- reserve -------------------------------- *)
\* a room the availability rules close for the range: its state does not
\* qualify for sale, or a planned or active inventory-closing interval of the
\* room overlaps the range
Unavailable(r, start_date, end_date) ==
  \/ ~StateSellable(r)
  \/ \E i \in RoomBlockings(r) :
       /\ blockings[i].status \in NonTerminal
       /\ ClosesInventory(blockings[i].blocking_type)
       /\ Overlaps(blockings[i].start_date, blockings[i].end_date, start_date, end_date)

\* C15: reserve on a room that is not available fails with NotAvailable and
\* leaves every room and the history unchanged; a caller refused that way never
\* goes on to the state change.
C15_UnavailableNotReserved ==
  [][/\ (/\ last'.op = "reserve_room_check"
         /\ last'.room \in Rooms
         /\ Unavailable(last'.room, last'.arg[1], last'.arg[2])) =>
           /\ last'.result = "NotAvailable"
           /\ proc'[last'.id].result = "NotAvailable"
           /\ room' = room
           /\ history' = history
     /\ \A p \in Procs : proc[p].result = "NotAvailable" => proc'[p] = proc[p]]_vars

\* C15 witness: a clean room refused for a range that a planned maintenance
\* interval covers, after the other caller was refused a dirty room.
C15_Witness ==
  /\ last.op = "reserve_room_check"
  /\ last.result = "NotAvailable"
  /\ last.room \in Rooms
  /\ room[last.room].state = "clean"
  /\ history = <<>>
  /\ \E p \in Procs : /\ p # last.id
                      /\ proc[p].result = "NotAvailable"
                      /\ proc[p].room \in Rooms
                      /\ room[proc[p].room].state = "dirty"

(* ------------------------- every way to set a state --------------------- *)
\* C16: a step that changes a room's state appends a history entry for that
\* room recording the change.
C16_StateChangeLogged ==
  [][\A r \in Rooms :
       room'[r].state # room[r].state =>
         /\ Len(history') = Len(history) + 1
         /\ history'[Len(history')].room_id = r
         /\ history'[Len(history')].new_state = room'[r].state]_vars

\* C18: the state of every room is a value of the room state enumeration.
C18_StateInEnumeration == \A r \in Rooms : room[r].state \in RoomStates

\* C18 witness: set_state was passed a value that is no room state and
\* refused it, on a room an earlier set_state had moved to house_use.
C18_Witness ==
  /\ last.op = "set_state"
  /\ last.arg = <<"reserved">>
  /\ last.result = "ValidationError"
  /\ room[last.room].state = "house_use"
  /\ history = <<>>

(* --------------------------- what an entry records ---------------------- *)
LastEntry(hist) == hist[Len(hist)]

\* no entry of room r with change type ct carries the present second
FreeSecond(r, ct) ==
  \A i \in RoomHistory(history, r) :
    ~(history[i].change_date = now /\ history[i].change_type = ct)

\* C17: the entry appended by an accepted transition records the room's state
\* and maintenance flag before and after it; this includes check_in: a
\* front-office check_in of a clean room is accepted and recorded as
\* clean -> check_in.
C17_EntryRecordsTransition ==
  [][/\ (last'.op \in TableActions /\ last'.result = "ok") =>
          /\ Len(history') = Len(history) + 1
          /\ LastEntry(history').room_id = last'.room
          /\ LastEntry(history').old_state = room[last'.room].state
          /\ LastEntry(history').old_maintenance_required
               = room[last'.room].maintenance_required
          /\ LastEntry(history').new_state = room'[last'.room].state
          /\ LastEntry(history').new_maintenance_required
               = room'[last'.room].maintenance_required
     /\ (/\ last'.op = "action_check_in"
         /\ last'.result # "AccessDenied"
         /\ room[last'.room].state = "clean"
         /\ FreeSecond(last'.room, "fo")) =>
           /\ last'.result = "ok"
           /\ Len(history') = Len(history) + 1
           /\ LastEntry(history').old_state = "clean"
           /\ LastEntry(history').new_state = "check_in"]_vars

(* ------------------------ events that keep inventory -------------------- *)
\* an active event interval of room r overlaps the range
ActiveEventOver(r, start_date, end_date) ==
  \E i \in RoomBlockings(r) :
    /\ blockings[i].status = "active"
    /\ blockings[i].blocking_type = "event"
    /\ Overlaps(blockings[i].start_date, blockings[i].end_date, start_date, end_date)

\* every planned or active interval of room r over the range is an event
OnlyEventsOver(r, start_date, end_date) ==
  \A i \in RoomBlockings(r) :
    (/\ blockings[i].status \in NonTerminal
     /\ Overlaps(blockings[i].start_date, blockings[i].end_date, start_date, end_date))
      => blockings[i].blocking_type = "event"

\* C19: with eventClosesInventory off, activating an event interval succeeds
\* and leaves the room's state and maintenance flag as they were, and the
\* availability check over a range covered only by event intervals, one of
\* them active, answers available whenever the room's state qualifies.
C19_EventKeepsRoomAvailable ==
  /\ [][(/\ BlockingStep({"action_activate"})
         /\ blockings[last'.id].blocking_type = "event"
         /\ ~eventClosesInventory) =>
           /\ last'.result = "ok"
           /\ blockings'[last'.id].status = "active"
           /\ room'[last'.room].state = room[last'.room].state
           /\ room'[last'.room].maintenance_required
                = room[last'.room].maintenance_required]_vars
  /\ []((/\ IsCheck
         /\ ~eventClosesInventory
         /\ StateSellable(last.room)
         /\ ActiveEventOver(last.room, last.arg[1], last.arg[2])
         /\ OnlyEventsOver(last.room, last.arg[1], last.arg[2]))
          => last.result = "True")

\* C19 witness: a clean room, an event interval created and activated on it
\* with the setting off, and the check over its range answering available.
C19_Witness ==
  /\ IsCheck
  /\ last.result = "True"
  /\ ~eventClosesInventory
  /\ room[last.room].state = "clean"
  /\ room[last.room].blocking_type = "event"
  /\ ActiveEventOver(last.room, last.arg[1], last.arg[2])

(* ------------------------- the order of the history --------------------- *)
\* C20: along a room's history in the order the entries were committed
\* change_date never decreases, and the room's entries read back ordered by
\* change_date come in the order they were committed.
C20_HistoryInCommitOrder ==
  /\ \A i \in 1..Len(history), j \in 1..Len(history) :
       (i < j /\ history[i].room_id = history[j].room_id)
         => history[i].change_date <= history[j].change_date
  /\ last.op = "get_room_status_timeline" =>
       \A i \in DOMAIN last.arg, j \in DOMAIN last.arg :
         i < j => last.arg[i] < last.arg[j]

(* ----------------------------- the ledger ------------------------------- *)
\* C21: every step keeps the entries already in the history, in their place
\* and with their fields, and only adds to them.
C21_AppendOnly ==
  [][/\ Len(history') >= Len(history)
     /\ \A i \in 1..Len(history) : history'[i] = history[i]]_vars

\* C22: appending a record whose state and maintenance flag are both
\* unchanged is refused with a validation error and adds nothing, and no
\* stored entry is such a record.
C22_NoChangeRejected ==
  /\ [][(/\ last'.op = "create_status_change"
         /\ last'.arg[2] = last'.arg[3]) =>
           /\ last'.result = "ValidationError"
           /\ history' = history]_vars
  /\ [](\A i \in 1..Len(history) :
          \/ history[i].old_state # history[i].new_state
          \/ history[i].old_maintenance_required # history[i].new_maintenance_required)

\* C22 witness: a no-change record refused after a record changing only the
\* maintenance flag was stored.
C22_Witness ==
  /\ last.op = "create_status_change"
  /\ last.arg[2] = last.arg[3]
  /\ last.result = "ValidationError"
  /\ \E i \in 1..Len(history) :
       /\ history[i].old_state = history[i].new_state
       /\ history[i].old_maintenance_required # history[i].new_maintenance_required

(* ---------------------- dates and moves of an interval ------------------ *)
DateWrites == {"write_dates", "write_start_date", "write_end_date"}

\* the range an interval has after the write of this step, if it is accepted
NewStart ==
  IF last'.op \in {"write_dates", "write_start_date"} THEN last'.arg[1]
  ELSE blockings[last'.id].start_date

NewEnd ==
  IF last'.op = "write_dates" THEN last'.arg[2]
  ELSE IF last'.op = "write_end_date" THEN last'.arg[1]
  ELSE blockings[last'.id].end_date

\* a create with an element whose start is after its end
CreateBadDates ==
  /\ last'.op = "create"
  /\ \/ last'.arg[1] > last'.arg[2]
     \/ Len(last'.arg) = 5 /\ last'.arg[4] > last'.arg[5]

\* C23: every stored interval has start_date <= end_date; a create, or a
\* write of either date or both, that would give start_date > end_date is
\* rejected and leaves the stored intervals as they were; a create of a
\* one-day interval that overlaps nothing is stored.
C23_StartNotAfterEnd ==
  /\ [](\A i \in 1..Len(blockings) : blockings[i].start_date <= blockings[i].end_date)
  /\ [][(last'.op \in DateWrites /\ NewStart > NewEnd) =>
          /\ last'.result = "ValidationError"
          /\ blockings' = blockings]_vars
  /\ [][CreateBadDates =>
          /\ last'.result \in {"ValidationError", "OverlapConflict"}
          /\ Len(last'.arg) = 2 => last'.result = "ValidationError"
          /\ blockings' = blockings]_vars
  /\ [][(/\ IsCreateOne
         /\ last'.arg[1] = last'.arg[2]
         /\ \A i \in RoomBlockings(last'.room) :
              blockings[i].status \in NonTerminal =>
                ~Overlaps(blockings[i].start_date, blockings[i].end_date,
                          last'.arg[1], last'.arg[2])) =>
          /\ last'.result = "ok"
          /\ Len(blockings') = Len(blockings) + 1
          /\ blockings'[Len(blockings')].start_date = last'.arg[1]
          /\ blockings'[Len(blockings')].end_date = last'.arg[1]]_vars

\* C23 witness: a write of the start date alone refused for passing the end
\* date, while a one-day interval is stored.
C23_Witness ==
  /\ last.op = "write_start_date"
  /\ last.result = "ValidationError"
  /\ last.arg[1] > blockings[last.id].end_date
  /\ \E i \in 1..Len(blockings) : blockings[i].start_date = blockings[i].end_date

\* the other planned or active intervals of the target room that overlap the
\* range the write of this step asks for
OthersInTheWay ==
  {j \in RoomBlockings(last'.room) \ {last'.id} :
     /\ blockings[j].status \in NonTerminal
     /\ Overlaps(blockings[j].start_date, blockings[j].end_date, NewStart, NewEnd)}

\* C27: a write of start date, end date or room asking for a valid range is
\* rejected as an overlap exactly when another planned or active interval of
\* the target room overlaps the resulting range, and then changes neither the
\* intervals nor the rooms; otherwise it is accepted and the interval has the
\* new range and room, its own old range never standing in the way.
C27_WriteRejectsIffOtherOverlaps ==
  [][(/\ last'.op \in DateWrites \cup {"write_room"}
      /\ NewStart <= NewEnd) =>
       /\ (last'.result = "OverlapConflict") <=> (OthersInTheWay # {})
       /\ last'.result \in {"ok", "OverlapConflict"}
       /\ last'.result = "OverlapConflict" => (blockings' = blockings /\ room' = room)
       /\ last'.result = "ok" =>
            blockings' = [blockings EXCEPT ![last'.id] =
                            [@ EXCEPT !.start_date = NewStart,
                                      !.end_date = NewEnd,
                                      !.room_id = last'.room]]]_vars

\* C27 witness: the start of a planned or active interval moved to the first
\* day, the interval ending on the last, its own old range overlapping the
\* new one, while another interval holds the same days in the other room.
C27_Witness ==
  /\ last.op = "write_start_date"
  /\ last.result = "ok"
  /\ blockings[last.id].status \in NonTerminal
  /\ blockings[last.id].start_date = 1
  /\ blockings[last.id].end_date = MaxDate
  /\ \E j \in 1..Len(blockings) :
       /\ j # last.id
       /\ blockings[j].room_id # blockings[last.id].room_id
       /\ blockings[j].status \in NonTerminal

(* ------------------- type change and repeated activation ---------------- *)
\* C24: a write of a different type on an active interval succeeds, leaves
\* the interval active with the new type, sets the room's blocking type to
\* the new type, and sets the room out of service unless the new type is
\* event while eventClosesInventory is off, when the room's state stays.
C24_TypeChangeReapplies ==
  [][(/\ BlockingStep({"write_type"})
      /\ blockings[last'.id].status = "active"
      /\ blockings[last'.id].blocking_type # last'.arg[1]) =>
        LET r == blockings[last'.id].room_id
        IN /\ last'.result = "ok"
           /\ blockings'[last'.id].status = "active"
           /\ blockings'[last'.id].blocking_type = last'.arg[1]
           /\ room'[r].blocking_type = last'.arg[1]
           /\ IF last'.arg[1] = "event" /\ ~eventClosesInventory
              THEN room'[r].state = room[r].state
              ELSE room'[r].state = "out_of_service"]_vars

\* C25: activate on an interval that is already active succeeds and leaves
\* the interval as it is and the room as an activation of it leaves a room:
\* the blocking type that of the interval, the state untouched by the repeat.
C25_ActivateIdempotent ==
  [][(/\ BlockingStep({"action_activate"})
      /\ blockings[last'.id].status = "active") =>
        LET r == blockings[last'.id].room_id
        IN /\ last'.result = "ok"
           /\ blockings' = blockings
           /\ room'[r].blocking_type = blockings[last'.id].blocking_type
           /\ room'[r].state = room[r].state]_vars

(* --------------------------- identity of entries ------------------------ *)
\* C26: no two history entries have the same room, change date and change
\* type.
C26_EntryIdentityUnique ==
  \A i \in 1..Len(history), j \in 1..Len(history) :
    (/\ history[i].room_id = history[j].room_id
     /\ history[i].change_date = history[j].change_date
     /\ history[i].change_type = history[j].change_type) => i = j

\* C26 witness: a handler refused by the constraint, an entry of its room
\* being stored in the same second.
C26_Witness ==
  /\ last.result = "IntegrityError"
  /\ \E i \in 1..Len(history) :
       /\ history[i].room_id = last.room
       /\ history[i].change_date = now

(* ------------------------- closed intervals ----------------------------- *)
\* a completed or cancelled interval of room r overlaps the range
Released(r, start_date, end_date) ==
  \E i \in RoomBlockings(r) :
    /\ blockings[i].status \in Terminal
    /\ Overlaps(blockings[i].start_date, blockings[i].end_date, start_date, end_date)

\* C30: over a range that a completed or cancelled interval of the room
\* overlaps, a create is accepted when no planned or active interval of the
\* room overlaps it, and the availability query answers True when no planned
\* or active inventory-closing interval of the room overlaps it.
C30_ClosedIntervalFreesRange ==
  /\ [][(/\ IsCreateOne
         /\ Released(last'.room, last'.arg[1], last'.arg[2])
         /\ \A i \in RoomBlockings(last'.room) :
              blockings[i].status \in NonTerminal =>
                ~Overlaps(blockings[i].start_date, blockings[i].end_date,
                          last'.arg[1], last'.arg[2])) =>
          /\ last'.result = "ok"
          /\ blockings' = Append(blockings, blockings'[Len(blockings')])
          /\ blockings'[Len(blockings')].status = "planned"]_vars
  /\ []((/\ last.op = "get_room_availability"
         /\ Released(last.room, last.arg[1], last.arg[2])
         /\ \A i \in RoomBlockings(last.room) :
              (blockings[i].status \in NonTerminal
               /\ ClosesInventory(blockings[i].blocking_type)) =>
                ~Overlaps(blockings[i].start_date, blockings[i].end_date,
                          last.arg[1], last.arg[2])) =>
          last.result = "True")

\* C30 witness: an interval stored over days of a cancelled interval of the
\* same room.
C30_Witness ==
  /\ last.op = "create"
  /\ last.result = "ok"
  /\ \E i \in RoomBlockings(last.room) :
       /\ i # last.id
       /\ blockings[i].status = "cancelled"
       /\ blockings[last.id].status = "planned"
       /\ Overlaps(blockings[i].start_date, blockings[i].end_date,
                   blockings[last.id].start_date, blockings[last.id].end_date)

(* --------------------------- rooms side by side ------------------------- *)
\* the stored intervals of room r, each with its id
IntervalsOf(blks, r) == {<<i, blks[i]>> : i \in {j \in 1..Len(blks) : blks[j].room_id = r}}

\* the history entries of room r, each with its id
EntriesOf(hist, r) == {<<i, hist[i]>> : i \in RoomHistory(hist, r)}

C28_OverlappingCallsNotBothCommitted ==
  \A p \in Procs, q \in Procs :
    (/\ p # q
     /\ proc[p].result = "ok"
     /\ proc[q].result = "ok"
     /\ proc[p].id # proc[q].id
     /\ proc[p].room = proc[q].room)
    => ~Overlaps(proc[p].start_date, proc[p].end_date,
                 proc[q].start_date, proc[q].end_date)

(* ------------------------- a reserve and the next ----------------------- *)
\* C31: a reserve that succeeds is one accepted transition of its room and
\* one new history entry, which records that transition, and leaves the other
\* rooms alone; a reserve called on a room after a reserve of that room has
\* succeeded is refused with NotAvailable, whatever its range.
C31_ReserveIsOneTransition ==
  /\ [][(last'.op = "reserve_room" /\ last'.result = "ok") =>
          LET r == last'.room
          IN /\ accepted' = [accepted EXCEPT ![r] = @ + 1]
             /\ Len(history') = Len(history) + 1
             /\ \A i \in 1..Len(history) : history'[i] = history[i]
             /\ history'[Len(history')].room_id = r
             /\ history'[Len(history')].old_state = room[r].state
             /\ history'[Len(history')].new_state = room'[r].state
             /\ room'[r].state # room[r].state
             /\ \A b \in Rooms \ {r} : room'[b] = room[b]]_vars
  /\ [][(/\ last'.op = "reserve_room_check"
         /\ \E q \in Procs : proc[q].result = "ok" /\ proc[q].room = last'.room) =>
          last'.result = "NotAvailable"]_vars

\* C31 witness: a caller refused with NotAvailable on the room another
\* caller has reserved, whose one history entry is that reserve's.
C31_Witness ==
  /\ last.op = "reserve_room_check"
  /\ last.result = "NotAvailable"
  /\ \E q \in Procs :
       /\ q # last.id
       /\ proc[q].result = "ok"
       /\ proc[q].room = last.room
       /\ accepted[last.room] = 1
       /\ Cardinality(RoomHistory(history, last.room)) = 1

(* ------------------------------ capability ------------------------------ *)
FrontOfficeActions ==
  {"action_check_in", "action_check_out", "action_room_ready_for_cleaning",
   "action_assign_house_use", "action_staff_checkout"}

HousekeepingActions ==
  {"action_start_cleaning", "action_finish_cleaning", "action_final_inspection",
   "action_maintenance_light", "action_maintenance_heavy", "action_complete_maintenance"}

\* the caller of the action of this step lacks the capability listed for it
LacksCapability ==
  \/ last'.op \in FrontOfficeActions /\ "front_office" \notin last'.arg[1]
  \/ last'.op \in HousekeepingActions /\ "housekeeping" \notin last'.arg[1]

\* C32: an action called by a user without the capability listed for it is
\* refused as an access error in every room state and changes neither the
\* room nor the history; a user with the capability is never refused for
\* access.
C32_CapabilityFirst ==
  [][(last'.op \in FrontOfficeActions \cup HousekeepingActions) =>
       /\ LacksCapability =>
            /\ last'.result = "AccessDenied"
            /\ room' = room
            /\ history' = history
       /\ ~LacksCapability => last'.result # "AccessDenied"]_vars

\* C32 witness: start_cleaning refused to a front office user on a room that
\* is not dirty either, after an accepted transition.
C32_Witness ==
  /\ last.op = "action_start_cleaning"
  /\ last.arg[1] = {"front_office", "maintenance"}
  /\ last.result = "AccessDenied"
  /\ room[last.room].state = "house_use"
  /\ Len(history) = 1

(* --------------------------- the stay of a guest ------------------------ *)
\* C33: a room in check_in leaves that state only to check_out, and a room in
\* check_out only to dirty, so a checked-in room reaches clean or inspected
\* again only through check_out and the cleaning that follows; check_in is
\* accepted only on a room that is clean or inspected.
C33_StayEndsThroughCheckOut ==
  [][\A r \in Rooms :
       /\ room[r].state = "check_in" => room'[r].state \in {"check_in", "check_out"}
       /\ room[r].state = "check_out" => room'[r].state \in {"check_out", "dirty"}
       /\ (last'.op = "action_check_in" /\ last'.room = r /\ last'.result = "ok") =>
            room[r].state \in {"clean", "inspected"}]_vars

(* ----------------------- the room's blocking fields --------------------- *)
\* room r has an active interval
HasActive(r) == \E i \in RoomBlockings(r) : blockings[i].status = "active"

\* C34: a room's blocking type and blocking reason are set exactly while the
\* room has an active interval.
C34_BlockingFieldsIffActive ==
  \A r \in Rooms :
    /\ HasActive(r) <=> room[r].blocking_type # "NONE"
    /\ HasActive(r) <=> room[r].blocking_reason # "NONE"

(* ------------------------ the two ways to cancel ------------------------ *)
\* the write cancel_blocking makes on a stored blocking
CancelVals == [k \in {"status", "reason"} |-> IF k = "status" THEN "cancelled" ELSE "Cancelled"]

\* C35: on every planned or active interval, action_cancel and cancel_blocking
\* end with the same status of the interval and the same state, blocking type
\* and blocking reason of its room.
C35_CancelWaysAgree ==
  \A id \in 1..Len(blockings) :
    blockings[id].status \in NonTerminal =>
      \A tx1 \in TxOutcomes, tx2 \in TxOutcomes :
        LET r == blockings[id].room_id
            a == finish(blockings, room, id, "cancelled", tx1)
            c == blocking_write(blockings, room, id, CancelVals, tx2)
        IN /\ a.blockings[id].status = c.blockings[id].status
           /\ a.room[r].state = c.room[r].state
           /\ a.room[r].blocking_type = c.room[r].blocking_type
           /\ a.room[r].blocking_reason = c.room[r].blocking_reason

(* --------------------------- the chain of entries ----------------------- *)
\* C36: the history entries of a room form a chain, each entry starting from
\* the state the entry before it ended in, and the latest entry ends in the
\* room's current state.
C36_HistoryChainEndsAtState ==
  \A r \in Rooms :
    LET ids == RoomHistory(history, r)
    IN /\ \A i \in ids, j \in ids :
            (i < j /\ ~ \E k \in ids : i < k /\ k < j) =>
              history[j].old_state = history[i].new_state
       /\ \A i \in ids :
            (\A k \in ids : k <= i) => history[i].new_state = room[r].state

(* --------------------------- the maintenance flag ----------------------- *)
MaintenanceActions ==
  {"action_maintenance_light", "action_maintenance_heavy", "action_complete_maintenance"}

\* C37: a room that is out of service or out of order has its maintenance
\* flag set, and only maintenance_light, maintenance_heavy and
\* complete_maintenance put a room into such a state or change the flag.
C37_MaintenanceStateHasFlag ==
  /\ [](\A r \in Rooms :
          room[r].state \in {"out_of_service", "out_of_order"} =>
            room[r].maintenance_required)
  /\ [][\A r \in Rooms :
          (\/ room'[r].maintenance_required # room[r].maintenance_required
           \/ /\ room'[r].state \in {"out_of_service", "out_of_order"}
              /\ room'[r].state # room[r].state) =>
            last'.op \in MaintenanceActions]_vars

(* ------------------------- an interval made an event -------------------- *)
\* the stored blockings with blocking id a planned event
AsPlannedEvent(id) ==
  [blockings EXCEPT ![id] = [@ EXCEPT !.blocking_type = "event", !.status = "planned"]]

C39_NoDeadEnd ==
  \A r \in Rooms, st \in RoomStates :
    \E h \in Handlers :
      transition([room EXCEPT ![r].state = st], <<>>, r, h, TRUE, "rollback").result = "ok"

(* -------------------------- maintenance requests ------------------------ *)
\* C40: a request that is in progress or completed has been started: its
\* start date, which only action_start writes, is set.
C40_InProgressWasStarted ==
  \A id \in 1..Len(requests) :
    requests[id].status \in {"in_progress", "completed"} =>
      requests[id].start_date # Unset

====
